---- MODULE Spec2Model ----
(***************************************************************************)
(* Phone-interview service of src/agent/bot.py: the module-level session   *)
(* map interview_contexts, the JSON log files, and the webhook handlers    *)
(* start_phone_interview, twilio_voice_webhook, process_response and       *)
(* twilio_status_callback, with evaluate_interview and                     *)
(* update_application_status.                                              *)
(*                                                                         *)
(* Python dicts are functions whose DOMAIN is the set of keys present.     *)
(* Session dicts live in the heap and are referred to by identity, because *)
(* the handlers alias them: interview_contexts.get(call_sid) hands out the *)
(* registered dict itself, and a status callback suspended in the          *)
(* notification request keeps its context across other handlers' steps.    *)
(* A handler runs atomically between awaits that really suspend; the only  *)
(* such await after the form is read is the PATCH of                       *)
(* update_application_status (the OpenAI and Twilio clients are blocking). *)
(***************************************************************************)
EXTENDS Integers, Sequences, FiniteSets, TLC

VARIABLES
    twilio_configured,   \* which Twilio settings the environment holds
    interview_contexts,  \* key -> identity of the session dict
    heap,                \* identity -> session dict
    logs,                \* call_sid -> contents of interview_<call_sid>.json
    inflight,            \* slot -> status callback suspended in the PATCH
    issued,              \* call SIDs the provider has handed out
    turns,               \* process_response deliveries so far
    hist,                \* identity -> history of that dict
    last                 \* what the most recent handler step did and returned

vars == <<twilio_configured, interview_contexts, heap, logs,
          inflight, issued, turns, hist, last>>

(***************************************************************************)
(* Bounds and input sets.                                                  *)
(***************************************************************************)
MaxTurns == 2
MaxDeepTurns == 5
MaxInFlight == 1
MaxBudgetTurns == 10

CallSidSeq == <<"CA1", "CA2">>

PhoneNumber == "+15551234567"

Requests ==
    { [jd |-> "Backend Engineer JD", resume |-> "5 yrs Python resume",
       phone_number |-> PhoneNumber],
      [jd |-> "Data Analyst JD", resume |-> "3 yrs SQL resume",
       phone_number |-> PhoneNumber] }

Utterances == {"", "I have 5 years building APIs"}

GenFailure == "<exception>"

GenTexts == {"Tell me more about that project.", "Let us wrap up."}

TtsOutcomes == {"audio"}

PatchOutcomes == {"200", "500", "exception"}

(***************************************************************************)
(* Python dict operations.                                                 *)
(***************************************************************************)
EmptyDict == [k \in {} |-> 0]

Put(d, k, v) == [x \in DOMAIN d \cup {k} |-> IF x = k THEN v ELSE d[x]]

Del(d, k) == [x \in DOMAIN d \ {k} |-> d[x]]

Get(d, k, default) == IF k \in DOMAIN d THEN d[k] ELSE default

Range(f) == {f[x] : x \in DOMAIN f}

\* JSON null / Python None
None == [type |-> "null"]

JObject(fields) == [type |-> "object", fields |-> fields]

JArray(items) == [type |-> "array", items |-> items]

(***************************************************************************)
(* The dict store.  The heap holds the dicts that the registry or a        *)
(* suspended handler refers to; the others are garbage.  An identity is    *)
(* only a name, so after every step each dict is named after its first     *)
(* referrer: the position in KeySeq of the key it is registered under, or, *)
(* past those, the position of the first suspended handler holding it.  No *)
(* two states then differ only in how the identities are named.  NewObj is *)
(* the name of a dict a step creates, until the step's end.                *)
(***************************************************************************)
TempKey(phone_number) == "pending_" \o phone_number

CallSids == Range(CallSidSeq)

KeySeq == CallSidSeq \o <<TempKey(PhoneNumber)>>

NewObj == 0

\* the first key, in KeySeq order, under which the registry holds dict o
FirstKey(reg, o) ==
    CHOOSE n \in 1..Len(KeySeq) :
        /\ KeySeq[n] \in DOMAIN reg /\ reg[KeySeq[n]] = o
        /\ \A m \in 1..(n - 1) : ~(KeySeq[m] \in DOMAIN reg /\ reg[KeySeq[m]] = o)

Commit(reg, hp, infl, hst) ==
    LET Holder(o) == CHOOSE i \in 1..Len(infl) :
                        /\ infl[i].context = o
                        /\ \A j \in 1..(i - 1) : infl[j].context # o
        Name(o) == IF o \in Range(reg) THEN FirstKey(reg, o)
                   ELSE Len(KeySeq) + Holder(o)
        registered == {FirstKey(reg, reg[k]) : k \in DOMAIN reg}
        detached == {Len(KeySeq) + i : i \in {i \in 1..Len(infl) :
                        infl[i].context \notin Range(reg) /\ Holder(infl[i].context) = i}}
        Old(n) == IF n <= Len(KeySeq) THEN reg[KeySeq[n]]
                  ELSE infl[n - Len(KeySeq)].context
    IN  /\ interview_contexts' = [k \in DOMAIN reg |-> Name(reg[k])]
        /\ inflight' = [i \in 1..Len(infl) |-> [infl[i] EXCEPT !.context = Name(@)]]
        /\ heap' = [n \in registered \cup detached |-> hp[Old(n)]]
        /\ hist' = [n \in registered \cup detached |-> hst[Old(n)]]

(***************************************************************************)
(* Speech synthesis and the TwiML the handlers answer with.  A response is *)
(* the sequence of its verbs; a spoken text is the sequence of its parts.  *)
(***************************************************************************)
USE_OPENAI_TTS == FALSE

NoAudio == "None"

generate_openai_tts(filename, synth) ==
    IF ~USE_OPENAI_TTS THEN NoAudio
    ELSE IF synth = "audio" THEN filename ELSE NoAudio

Say(text) == [verb |-> "Say", text |-> text]

Play(filename) == [verb |-> "Play", url |-> filename]

Gather(nested) == [verb |-> "Gather", nested |-> nested]

Hangup == [verb |-> "Hangup"]

Redirect(target) == [verb |-> "Redirect", url |-> target]

PlayAlways(audio, text) == Play(audio)

PlayOrSay(audio, text) == IF audio # NoAudio THEN Play(audio) ELSE Say(text)

GreetingText ==
    <<"Hi! This is Alex from FirstRound AI. Thanks for taking my call! ",
      "I've reviewed your resume and I'm excited to learn more about your experience. ",
      "This will be a quick screening call. Let's get started.">>

FirstQuestion ==
    <<"First, could you please introduce yourself and tell me a bit about your background?">>

Apology == "I apologize, I'm having some technical difficulties. Could you please repeat that?"

ClosingSentence ==
    " Thank you so much for your time today. We'll be in touch soon with next steps. Have a great day!"

HasVerb(response, verb) == \E i \in 1..Len(response) : response[i].verb = verb

(***************************************************************************)
(* save_conversation_log: the record written to interview_<call_sid>.json  *)
(* (the timestamp is left out).                                            *)
(***************************************************************************)
LogTruncate == 500

Truncate(s) == IF Len(s) <= LogTruncate THEN s ELSE SubSeq(s, 1, LogTruncate)

LogRecord(call_sid, context, status) ==
    [call_sid |-> call_sid,
     status |-> status,
     job_description |-> Truncate(Get(context, "jd", "")),
     resume_summary |-> Truncate(Get(context, "resume", "")),
     conversation |-> Get(context, "conversation", <<>>),
     exchange_count |-> Len(Get(context, "conversation", <<>>)) \div 2,
     evaluation |-> Get(context, "evaluation", None)]

save_conversation_log(lg, call_sid, context, status) ==
    Put(lg, call_sid, LogRecord(call_sid, context, status))

\* get_log: the stored record, or 404
get_log(call_sid) ==
    IF call_sid \in DOMAIN logs
    THEN [raised |-> "none", body |-> logs[call_sid]]
    ELSE [raised |-> "HTTP404", body |-> None]

(***************************************************************************)
(* evaluate_interview.  The backend's reply is either an exception or a    *)
(* text, modelled as the sequence of its pieces: an opening json fence, a  *)
(* bare fence, a piece that is the JSON text of a value, or other prose.   *)
(***************************************************************************)
FenceJson == [tok |-> "fence_json"]

Fence == [tok |-> "fence"]

Prose == [tok |-> "prose"]

Json(v) == [tok |-> "json", value |-> v]

BackendError == [raised |-> TRUE, text |-> <<>>]

BackendText(text) == [raised |-> FALSE, text |-> text]

ScoreObject(s, overall, decision) ==
    JObject([technical_fit |-> s[1],
             experience_relevance |-> s[2],
             communication |-> s[3],
             problem_solving |-> s[4],
             culture_fit |-> s[5],
             overall_score |-> overall,
             decision |-> decision,
             summary |-> "summary",
             strengths |-> <<"strength">>,
             areas_of_concern |-> <<"concern">>])

EvalFallback ==
    JObject([technical_fit |-> 5,
             experience_relevance |-> 5,
             communication |-> 5,
             problem_solving |-> 5,
             culture_fit |-> 5,
             overall_score |-> 5,
             decision |-> "PENDING",
             summary |-> "Evaluation could not be completed automatically.",
             strengths |-> <<>>,
             areas_of_concern |-> <<"Automatic evaluation failed">>])

Contains(text, toks) == \E i \in 1..Len(text) : text[i].tok \in toks

IndexOfFirst(text, toks) ==
    CHOOSE i \in 1..Len(text) :
        /\ text[i].tok \in toks
        /\ \A j \in 1..(i - 1) : text[j].tok \notin toks

\* text.split(sep)[1] for a text that contains sep, up to the next sep
AfterFirst(text, toks) == SubSeq(text, IndexOfFirst(text, toks) + 1, Len(text))

\* text.split(sep)[0]
UntilFirst(text, toks) ==
    IF Contains(text, toks)
    THEN SubSeq(text, 1, IndexOfFirst(text, toks) - 1)
    ELSE text

\* a json fence also contains the bare fence, so the second split stops at either
StripFences(text) ==
    IF Contains(text, {"fence_json"})
    THEN UntilFirst(UntilFirst(AfterFirst(text, {"fence_json"}), {"fence_json"}),
                    {"fence", "fence_json"})
    ELSE IF Contains(text, {"fence"})
    THEN UntilFirst(AfterFirst(text, {"fence"}), {"fence"})
    ELSE text

JsonLoads(text) ==
    IF Len(text) = 1 /\ text[1].tok = "json"
    THEN [raised |-> FALSE, value |-> text[1].value]
    ELSE [raised |-> TRUE, value |-> None]

evaluate_interview(reply) ==
    IF reply.raised THEN EvalFallback
    ELSE LET parsed == JsonLoads(StripFences(reply.text))
         IN  IF parsed.raised THEN EvalFallback ELSE parsed.value

\* replies the evaluation backend is taken to give
Accepting == ScoreObject(<<8, 8, 8, 8, 8>>, 8, "ACCEPT")

Contradicting == ScoreObject(<<8, 8, 8, 8, 8>>, 8, "REJECT")

BackendReplies ==
    { BackendError,
      BackendText(<<Json(Accepting)>>),
      BackendText(<<Json(Contradicting)>>),
      BackendText(<<Json(JArray(<<>>))>>),
      BackendText(<<Prose, FenceJson, Json(Accepting), Fence, Prose>>),
      BackendText(<<Fence, Json(Contradicting), Fence>>),
      BackendText(<<Prose>>) }

(***************************************************************************)
(* update_application_status: evaluation.get raises on a value that is not *)
(* a dict, inside the try, before any request is made.                     *)
(***************************************************************************)
SendsPatch(evaluation) == evaluation.type = "object"

PatchBodyUnlessRejected(evaluation) ==
    [status |-> IF Get(evaluation.fields, "decision", "None") = "REJECT"
                THEN "rejected" ELSE "accepted",
     evaluation |-> evaluation]

PatchBody(evaluation) ==
    [status |-> IF Get(evaluation.fields, "decision", "None") = "ACCEPT"
                THEN "accepted" ELSE "rejected",
     evaluation |-> evaluation]

(***************************************************************************)
(* Initial state: the module has been imported, nothing is stored.         *)
(***************************************************************************)
Settings == {"TWILIO_ACCOUNT_SID", "TWILIO_AUTH_TOKEN", "TWILIO_PHONE_NUMBER"}

SomeConfigured(env) == \E name \in Settings : env[name]

\* all([TWILIO_ACCOUNT_SID, TWILIO_AUTH_TOKEN, TWILIO_PHONE_NUMBER])
AllConfigured(env) == \A name \in Settings : env[name]

Init ==
    /\ twilio_configured = [name \in Settings |-> TRUE]
    /\ interview_contexts = EmptyDict
    /\ heap = EmptyDict
    /\ logs = EmptyDict
    /\ inflight = <<>>
    /\ issued = {}
    /\ turns = 0
    /\ hist = EmptyDict
    /\ last = [op |-> "init"]

(***************************************************************************)
(* POST /start-phone-interview                                             *)
(***************************************************************************)
ProviderError == "<exception>"

RekeyDropping(reg, temp_key, call_sid) == Del(reg, temp_key)

RekeyCopy(reg, temp_key, call_sid) == Put(reg, call_sid, reg[temp_key])

\* interview_contexts[call.sid] = interview_contexts.pop(temp_key)
Rekey(reg, temp_key, call_sid) == Put(Del(reg, temp_key), call_sid, reg[temp_key])

start_phone_interview(request, created) ==
    /\ created \in (CallSids \ issued) \cup {ProviderError}
    /\ IF ~AllConfigured(twilio_configured)
       THEN /\ last' = [op |-> "start_phone_interview",
                        raised |-> "HTTP500",
                        detail |-> "Twilio credentials not configured",
                        request |-> request,
                        call_sid |-> "None"]
            /\ UNCHANGED <<interview_contexts, heap, inflight, hist, issued>>
       ELSE LET temp_key == TempKey(request.phone_number)
                ref == NewObj
                heap1 == Put(heap, ref, [jd |-> request.jd, resume |-> request.resume])
                hist1 == Put(hist, ref, [calls |-> 0, started |-> TRUE])
                reg1 == Put(interview_contexts, temp_key, ref)
                reg2 == IF created = ProviderError THEN reg1
                        ELSE Rekey(reg1, temp_key, created)
            IN  /\ Commit(reg2, heap1, inflight, hist1)
                /\ issued' = IF created = ProviderError THEN issued
                             ELSE issued \cup {created}
                /\ last' = IF created = ProviderError
                           THEN [op |-> "start_phone_interview",
                                 raised |-> "HTTP500",
                                 detail |-> "Failed to initiate call",
                                 request |-> request,
                                 call_sid |-> "None"]
                           ELSE [op |-> "start_phone_interview",
                                 raised |-> "none",
                                 detail |-> "calling",
                                 request |-> request,
                                 call_sid |-> created]
    /\ UNCHANGED <<twilio_configured, logs, turns>>

(***************************************************************************)
(* POST /twilio/voice-webhook                                              *)
(***************************************************************************)
Turn(role, content) == [role |-> role, content |-> content]

twilio_voice_webhook_recording(call_sid, synth1, synth2) ==
    /\ last' = [op |-> "twilio_voice_webhook", raised |-> "none",
                response |-> << Say(GreetingText), Gather(Say(FirstQuestion)),
                                Say(<<"I didn't catch that. Let me try again.">>),
                                Redirect("/twilio/voice-webhook") >>]
    /\ heap' = IF call_sid \in DOMAIN interview_contexts
               THEN [heap EXCEPT ![interview_contexts[call_sid]] =
                        Put(@, "conversation",
                            Append(Get(@, "conversation", <<>>),
                                   Turn("assistant", FirstQuestion[1])))]
               ELSE heap
    /\ UNCHANGED <<twilio_configured, interview_contexts, logs,
                   inflight, issued, turns, hist>>

twilio_voice_webhook(call_sid, synth1, synth2) ==
    LET greeting_audio == generate_openai_tts("greeting", synth1)
        question_audio == generate_openai_tts("q1", synth2)
        response ==
            << PlayOrSay(greeting_audio, GreetingText),
               Gather(PlayOrSay(question_audio, FirstQuestion)),
               Say(<<"I didn't catch that. Let me try again.">>),
               Redirect("/twilio/voice-webhook") >>
    IN  /\ last' = [op |-> "twilio_voice_webhook",
                    raised |-> "none", response |-> response]
        /\ UNCHANGED <<twilio_configured, interview_contexts, heap, logs,
                       inflight, issued, turns, hist>>

(***************************************************************************)
(* POST /twilio/process-response/{call_sid}                                *)
(***************************************************************************)
DefaultTurnContext == [jd |-> "", resume |-> "", conversation |-> <<>>]

EndThreshold == 10

ShouldEndLate(context) == Len(context.conversation) > EndThreshold

ShouldEnd(context) == Len(context.conversation) >= EndThreshold

\* the candidate's turn is appended before the generation call
AppendUser(context, speech_result) ==
    LET c == IF "conversation" \in DOMAIN context THEN context
             ELSE Put(context, "conversation", <<>>)
    IN  Put(c, "conversation", Append(c.conversation, Turn("user", speech_result)))

AfterGenerationLosing(context, gen) ==
    IF gen = GenFailure THEN context
    ELSE Put(context, "conversation",
             <<context.conversation[Len(context.conversation)],
               Turn("assistant", gen)>>)

\* the try block: on an exception nothing after the failing call has run
AfterGeneration(context, gen) ==
    IF gen = GenFailure THEN context
    ELSE Put(context, "conversation",
             Append(context.conversation, Turn("assistant", gen)))

\* interview_contexts[call_sid] = context, reached only without an exception
StoreContext(reg, call_sid, ref, gen) ==
    IF gen = GenFailure THEN reg ELSE Put(reg, call_sid, ref)

TurnResponse(context, ai_response, synth) ==
    IF ShouldEnd(context)
    THEN << PlayOrSay(generate_openai_tts("closing", synth),
                      <<ai_response, ClosingSentence>>),
            Hangup >>
    ELSE << Gather(PlayOrSay(generate_openai_tts("response", synth),
                             <<ai_response>>)),
            Say(<<"Are you still there?">>),
            Redirect("/twilio/process-response") >>

GetContextStrict(reg, hp, call_sid) ==
    IF call_sid \in DOMAIN reg
    THEN [raised |-> "none", ref |-> reg[call_sid], context |-> hp[reg[call_sid]]]
    ELSE [raised |-> "KeyError", ref |-> NewObj, context |-> DefaultTurnContext]

\* context = interview_contexts.get(call_sid, {...}): the registered dict
\* itself, or a fresh default; a missing key is not an error
GetContext(reg, hp, call_sid) ==
    IF call_sid \in DOMAIN reg
    THEN [raised |-> "none", ref |-> reg[call_sid], context |-> hp[reg[call_sid]]]
    ELSE [raised |-> "none", ref |-> NewObj, context |-> DefaultTurnContext]

\* the reply of the try block, or the apology of the except block
AiResponse(gen) == IF gen = GenFailure THEN Apology ELSE gen

\* an exception outside the try block leaves the handler before any change
process_response(call_sid, speech_result, gen, synth) ==
    /\ turns' = turns + 1
    /\ LET got == GetContext(interview_contexts, heap, call_sid)
           registered == call_sid \in DOMAIN interview_contexts
           ref == got.ref
           context == AfterGeneration(AppendUser(got.context, speech_result), gen)
           ai_response == AiResponse(gen)
           heap1 == Put(heap, ref, context)
           hist1 == Put(hist, ref,
                        IF registered THEN [hist[ref] EXCEPT !.calls = @ + 1]
                        ELSE [calls |-> 1, started |-> FALSE])
           reg1 == StoreContext(interview_contexts, call_sid, ref, gen)
       IN  IF got.raised # "none"
           THEN /\ last' = [op |-> "process_response", call_sid |-> call_sid,
                            speech_result |-> speech_result, gen |-> gen,
                            raised |-> got.raised]
                /\ UNCHANGED <<interview_contexts, heap, inflight, hist, logs>>
           ELSE /\ Commit(reg1, heap1, inflight, hist1)
                /\ logs' = IF gen = GenFailure THEN logs
                           ELSE save_conversation_log(logs, call_sid, context,
                                                      "in_progress")
                /\ last' = [op |-> "process_response", call_sid |-> call_sid,
                            speech_result |-> speech_result, gen |-> gen,
                            raised |-> "none",
                            registered |-> registered,
                            ai_response |-> ai_response,
                            context |-> context,
                            calls |-> hist1[ref].calls,
                            started |-> hist1[ref].started,
                            response |-> TurnResponse(context, ai_response, synth)]
    /\ UNCHANGED <<twilio_configured, issued>>

(***************************************************************************)
(* POST /twilio/status-callback.  A completed call with at least one       *)
(* exchange is evaluated and the handler then waits for the frontend's     *)
(* answer to the PATCH; StatusResume is the rest of the handler.           *)
(***************************************************************************)
TerminalWithRinging == {"completed", "failed", "busy", "no-answer", "ringing"}

Terminal == {"completed", "failed", "busy", "no-answer"}

NonTerminal == {"initiated", "ringing", "answered"}

MinEvaluated == 2

ShouldEvaluateAnyTurn(context) == Len(Get(context, "conversation", <<>>)) >= 1

ShouldEvaluate(context) == Len(Get(context, "conversation", <<>>)) >= MinEvaluated

\* The provider reports one final status per call (possibly more than once):
\* while a callback for a call is being handled, no callback with another
\* final status arrives for that call.
OneFinalStatus(call_sid, call_status) ==
    \A i \in 1..Len(inflight) :
        (inflight[i].call_sid = call_sid /\ call_status \in Terminal)
            => inflight[i].call_status = call_status

\* what a step of the handler did: the evaluation it computed, the request it
\* sent, the log files it wrote, the keys it deleted, the exception it ended in
StatusReport(call_sid, call_status, phase, raised, reply, evaluation, patch, written, removed) ==
    [op |-> "twilio_status_callback", phase |-> phase, raised |-> raised,
     call_sid |-> call_sid, call_status |-> call_status,
     evaluated |-> reply # None, reply |-> reply, evaluation |-> evaluation,
     patch |-> patch, written |-> written, removed |-> removed]

RemoveSessionKeep(reg, call_sid) == reg

\* del interview_contexts[call_sid]
RemoveSession(reg, call_sid) == Del(reg, call_sid)

\* save the final log and delete the entry
FinalizeNow(call_sid, call_status, hp, reply, evaluation) ==
    /\ logs' = save_conversation_log(logs, call_sid,
                                     hp[interview_contexts[call_sid]], call_status)
    /\ Commit(RemoveSession(interview_contexts, call_sid), hp, inflight, hist)
    /\ last' = StatusReport(call_sid, call_status, "returned", "none", reply,
                            evaluation, None, {call_sid}, {call_sid})

\* the completed branch with a conversation: evaluate, then notify
EvaluateAndNotify(call_sid, call_status, reply) ==
    LET ref == interview_contexts[call_sid]
        evaluation == evaluate_interview(reply)
        heap1 == Put(heap, ref, Put(heap[ref], "evaluation", evaluation))
    IN  IF SendsPatch(evaluation)
        THEN /\ Len(inflight) < MaxInFlight
             /\ Commit(interview_contexts, heap1,
                       Append(inflight, [call_sid |-> call_sid,
                                         call_status |-> call_status,
                                         context |-> ref,
                                         evaluation |-> evaluation]),
                       hist)
             /\ last' = StatusReport(call_sid, call_status, "suspended", "none",
                                     reply, evaluation, PatchBody(evaluation),
                                     {}, {})
             /\ UNCHANGED logs
        ELSE FinalizeNow(call_sid, call_status, heap1, reply, evaluation)

twilio_status_callback(call_sid, call_status) ==
    /\ OneFinalStatus(call_sid, call_status)
    /\ IF call_status \in Terminal /\ call_sid \in DOMAIN interview_contexts
       THEN IF call_status = "completed"
               /\ ShouldEvaluate(heap[interview_contexts[call_sid]])
            THEN \E reply \in BackendReplies :
                    EvaluateAndNotify(call_sid, call_status, reply)
            ELSE FinalizeNow(call_sid, call_status, heap, None, None)
       ELSE /\ last' = StatusReport(call_sid, call_status, "returned", "none",
                                    None, None, None, {}, {})
            /\ UNCHANGED <<interview_contexts, heap, logs, hist, inflight>>
    /\ UNCHANGED <<twilio_configured, issued, turns>>

\* the frontend's answer arrives: 200, another status, or the request failed
StatusResume(slot, outcome) ==
    /\ slot \in 1..Len(inflight)
    /\ LET h == inflight[slot]
           present == h.call_sid \in DOMAIN interview_contexts
           infl1 == [i \in 1..(Len(inflight) - 1) |->
                        IF i < slot THEN inflight[i] ELSE inflight[i + 1]]
       IN  /\ logs' = save_conversation_log(logs, h.call_sid, heap[h.context],
                                            h.call_status)
           /\ Commit(RemoveSession(interview_contexts, h.call_sid), heap, infl1, hist)
           /\ last' = StatusReport(h.call_sid, h.call_status, "resumed",
                                   IF present THEN "none" ELSE "KeyError",
                                   None, None, [answer |-> outcome], {h.call_sid},
                                   IF present THEN {h.call_sid} ELSE {})
    /\ UNCHANGED <<twilio_configured, issued, turns>>

(***************************************************************************)
(* The service: any request or webhook may arrive at any time.             *)
(***************************************************************************)
OneCall == {"CA1"}

Next ==
    \/ \E request \in Requests, created \in OneCall \cup {ProviderError} :
            start_phone_interview(request, created)
    \/ \E call_sid \in OneCall, synth1 \in TtsOutcomes, synth2 \in TtsOutcomes :
            twilio_voice_webhook(call_sid, synth1, synth2)
    \/ \E call_sid \in OneCall, speech_result \in {"I have 5 years building APIs"},
          gen \in {"Tell me more about that project.", GenFailure}, synth \in TtsOutcomes :
            turns < MaxTurns /\ process_response(call_sid, speech_result, gen, synth)
    \/ \E call_sid \in OneCall, call_status \in Terminal \cup NonTerminal :
            twilio_status_callback(call_sid, call_status)
    \/ \E slot \in 1..MaxInFlight, outcome \in PatchOutcomes :
            StatusResume(slot, outcome)

Spec == Init /\ [][Next]_vars

(***************************************************************************)
(* One call followed through its turns, with every generated text.         *)
(***************************************************************************)
NextTurns ==
    \/ \E request \in Requests :
            start_phone_interview(request, "CA1")
    \/ \E speech_result \in Utterances, gen \in GenTexts \cup {GenFailure},
          synth \in TtsOutcomes :
            turns < MaxDeepTurns /\ process_response("CA1", speech_result, gen, synth)

SpecTurns == Init /\ [][NextTurns]_vars

(***************************************************************************)
(* The same call with the webhook that answers it, for the prompts.        *)
(***************************************************************************)
NextPrompts ==
    \/ NextTurns
    \/ \E synth1 \in TtsOutcomes, synth2 \in TtsOutcomes :
            twilio_voice_webhook("CA1", synth1, synth2)

SpecPrompts == Init /\ [][NextPrompts]_vars

(***************************************************************************)
(* The service started with any of the Twilio settings missing or present. *)
(***************************************************************************)
InitAnySettings ==
    /\ twilio_configured \in [Settings -> BOOLEAN]
    /\ interview_contexts = EmptyDict
    /\ heap = EmptyDict
    /\ logs = EmptyDict
    /\ inflight = <<>>
    /\ issued = {}
    /\ turns = 0
    /\ hist = EmptyDict
    /\ last = [op |-> "init"]

NextSettings ==
    \/ \E request \in Requests, created \in OneCall \cup {ProviderError} :
            start_phone_interview(request, created)
    \/ \E call_sid \in OneCall, speech_result \in Utterances,
          gen \in {"Tell me more about that project.", GenFailure},
          synth \in TtsOutcomes :
            turns < MaxTurns /\ process_response(call_sid, speech_result, gen, synth)

SpecSettings == InitAnySettings /\ [][NextSettings]_vars

(***************************************************************************)
(* Several calls to one phone number, each with its turns.                 *)
(***************************************************************************)
NextCalls ==
    \/ \E request \in Requests, created \in CallSids \cup {ProviderError} :
            start_phone_interview(request, created)
    \/ \E call_sid \in CallSids, speech_result \in {"I have 5 years building APIs"},
          gen \in {"Tell me more about that project.", GenFailure},
          synth \in TtsOutcomes :
            turns < MaxTurns /\ process_response(call_sid, speech_result, gen, synth)

SpecCalls == Init /\ [][NextCalls]_vars

(***************************************************************************)
(* One call until it is hung up: the call is created before its turns, if  *)
(* at all, and no turn is delivered after the hang-up.                     *)
(***************************************************************************)
HungUp == last.op = "process_response" /\ HasVerb(last.response, "Hangup")

NextBudget ==
    \/ \E request \in Requests :
            turns = 0 /\ start_phone_interview(request, "CA1")
    \/ \E gen \in {"Tell me more about that project.", GenFailure},
          synth \in TtsOutcomes :
            /\ turns < MaxBudgetTurns
            /\ ~HungUp
            /\ process_response("CA1", "", gen, synth)

SpecBudget == Init /\ [][NextBudget]_vars

(***************************************************************************)
(* Properties of the turn handler.                                         *)
(***************************************************************************)
\* the sessions registered under a call SID
Sessions == DOMAIN interview_contexts \cap CallSids

Conversation(call_sid) ==
    Get(heap[interview_contexts[call_sid]], "conversation", <<>>)

CallsHandled(call_sid) == hist[interview_contexts[call_sid]].calls

Alternates(conversation) ==
    \A i \in 1..Len(conversation) :
        conversation[i].role = IF i % 2 = 1 THEN "user" ELSE "assistant"

IsTurnReport == last.op = "process_response"

\* the utterance the caller hears first in a response
NextUtterance(response) ==
    LET v == IF response[1].verb = "Gather" THEN response[1].nested ELSE response[1]
    IN  IF v.verb = "Say" THEN v.text[1] ELSE "<audio>"

\* C1: after n calls of process_response on a session, whatever the
\* generation calls did, the session's conversation holds exactly 2n turns
\* (the greeting is never recorded).
C1_TranscriptLengthIsTwicePerCall ==
    \A call_sid \in Sessions :
        Len(Conversation(call_sid)) = 2 * CallsHandled(call_sid)

\* C2: the conversation of every session alternates user, assistant from a
\* user turn on, and its length is even whenever the next call is about to
\* append.
C2_TurnsAlternate ==
    \A call_sid \in Sessions :
        /\ Alternates(Conversation(call_sid))
        /\ Len(Conversation(call_sid)) % 2 = 0

\* C3: process_response hangs up exactly when the conversation holds at
\* least 10 turns after the call's appends, whether or not the generation
\* succeeded; otherwise it gathers more speech.
C3_EndsIffTenTurns ==
    IsTurnReport =>
        /\ HasVerb(last.response, "Hangup") <=> Len(last.context.conversation) >= 10
        /\ HasVerb(last.response, "Gather") <=> Len(last.context.conversation) < 10

C3_Witness ==
    /\ IsTurnReport
    /\ HasVerb(last.response, "Hangup")
    /\ Len(last.context.conversation) = 10

\* C4: on a session made by start_phone_interview the first four calls of
\* process_response do not hang up and the fifth does, whatever the
\* generation calls did.
C4_FifthCallEnds ==
    (IsTurnReport /\ last.started) =>
        /\ last.calls <= 4 => ~HasVerb(last.response, "Hangup")
        /\ last.calls = 5 => HasVerb(last.response, "Hangup")

\* C5: process_response raises nothing and answers with an utterance for
\* every call SID, registered or not, and every utterance, empty or not;
\* when the generation fails the utterance is the fixed apology.
C5_TurnNeverFails ==
    IsTurnReport =>
        /\ last.raised = "none"
        /\ NextUtterance(last.response) =
              IF last.gen = GenFailure THEN Apology ELSE last.gen

C5_Witness ==
    /\ IsTurnReport
    /\ ~last.registered
    /\ last.speech_result = ""
    /\ last.gen = GenFailure
    /\ NextUtterance(last.response) = Apology

(***************************************************************************)
(* Properties of the evaluation.                                           *)
(***************************************************************************)
IsStatusReport == last.op = "twilio_status_callback"

ScoreFields == {"technical_fit", "experience_relevance", "communication",
                "problem_solving", "culture_fit"}

ResultFields == ScoreFields \cup {"overall_score", "decision", "summary",
                                  "strengths", "areas_of_concern"}

RECURSIVE SumOver(_, _)
SumOver(f, keys) ==
    IF keys = {} THEN 0
    ELSE LET k == CHOOSE x \in keys : TRUE
         IN  f[k] + SumOver(f, keys \ {k})

\* the decision the rubric gives: mean of the five scores at least 6 and
\* no score below 4
RubricDecision(fields) ==
    IF /\ SumOver(fields, ScoreFields) >= 6 * Cardinality(ScoreFields)
       /\ \A k \in ScoreFields : fields[k] >= 4
    THEN "ACCEPT" ELSE "REJECT"

MatchesSchema(v) ==
    /\ v.type = "object"
    /\ ResultFields \subseteq DOMAIN v.fields
    /\ v.fields.decision \in {"ACCEPT", "REJECT"}

\* the backend answered and its answer parsed
ParsedReply(reply) ==
    /\ ~reply.raised
    /\ ~JsonLoads(StripFences(reply.text)).raised

\* C6: an evaluation made from a successful backend answer has decision
\* ACCEPT exactly when the mean of its five scores is at least 6 and none is
\* below 4, whatever decision the backend reported.
C6_DecisionFollowsScores ==
    (/\ IsStatusReport /\ last.evaluated
     /\ ParsedReply(last.reply)
     /\ MatchesSchema(last.evaluation))
        => last.evaluation.fields.decision = RubricDecision(last.evaluation.fields)

\* C7: evaluate_interview raises nothing, and gives the fixed fallback when
\* the backend call fails, when its output is not JSON, and when the JSON
\* does not have the expected fields.
C7_FallbackOnBadOutput ==
    (IsStatusReport /\ last.evaluated) =>
        /\ last.raised = "none"
        /\ ~(ParsedReply(last.reply)
             /\ MatchesSchema(JsonLoads(StripFences(last.reply.text)).value))
              => last.evaluation = EvalFallback

(***************************************************************************)
(* Properties of the session lifecycle.                                    *)
(***************************************************************************)
\* C8: when start_phone_interview succeeds, the provisional entry is gone,
\* the entry under the call SID holds the job description and resume of the
\* request, and in no state is one session registered under two keys.
C8_RekeyedOnce ==
    /\ (last.op = "start_phone_interview" /\ last.raised = "none") =>
          /\ TempKey(last.request.phone_number) \notin DOMAIN interview_contexts
          /\ last.call_sid \in DOMAIN interview_contexts
          /\ heap[interview_contexts[last.call_sid]].jd = last.request.jd
          /\ heap[interview_contexts[last.call_sid]].resume = last.request.resume
    /\ \A k1 \in DOMAIN interview_contexts, k2 \in DOMAIN interview_contexts :
          k1 # k2 => interview_contexts[k1] # interview_contexts[k2]

C8_Witness ==
    /\ last.op = "start_phone_interview"
    /\ last.raised = "none"
    /\ last.call_sid \in DOMAIN interview_contexts
    /\ heap[interview_contexts[last.call_sid]].jd = last.request.jd

\* C9: a completed notification handled right after a completed
\* finalization of the same call changes nothing: it writes no log, removes
\* nothing, evaluates nothing and raises nothing.
C9_SecondCompletedIsNoOp ==
    [][\A call_sid \in CallSids :
        (/\ IsStatusReport
         /\ last.call_sid = call_sid /\ last.call_status = "completed"
         /\ last.raised = "none" /\ last.written = {call_sid}
         /\ last'.op = "twilio_status_callback"
         /\ last'.call_sid = call_sid /\ last'.call_status = "completed"
         /\ last'.phase # "resumed")
            => /\ last'.raised = "none"
               /\ last'.written = {} /\ last'.removed = {}
               /\ ~last'.evaluated
               /\ UNCHANGED <<interview_contexts, heap, logs>>]_vars

C9_Witness ==
    /\ IsStatusReport
    /\ last.call_status = "completed" /\ last.phase = "returned"
    /\ last.written = {} /\ last.raised = "none"
    /\ last.call_sid \notin DOMAIN interview_contexts
    /\ last.call_sid \in DOMAIN logs
    /\ logs[last.call_sid].status = "completed"

\* the number of turns of the session a callback found, -1 when it found none
TurnsFound ==
    IF last.phase = "suspended" THEN Len(Conversation(last.call_sid))
    ELSE IF last.written # {} THEN Len(logs[last.call_sid].conversation)
    ELSE -1

\* C10: a status callback evaluates exactly when the status is completed
\* and the session holds at least 2 turns; a finalization without an
\* evaluation writes a record whose evaluation is null.
C10_EvaluatedIffCompletedWithTurns ==
    (IsStatusReport /\ last.phase # "resumed") =>
        /\ last.evaluated <=> (last.call_status = "completed" /\ TurnsFound >= 2)
        /\ (last.written # {} /\ ~last.evaluated)
              => logs[last.call_sid].evaluation = None

C10_Witness ==
    /\ IsStatusReport /\ last.phase # "resumed"
    /\ last.evaluated
    /\ last.call_status = "completed"
    /\ TurnsFound = 2

(***************************************************************************)
(* Properties of the status callback and of the log files.                 *)
(***************************************************************************)
\* C11: a status callback with a final status that found a session has, when
\* it returns, written the log with that status, sent the PATCH with the
\* status and the evaluation, and deleted the session.
C11_TerminalDoesAllThree ==
    (/\ IsStatusReport /\ last.call_status \in Terminal
     /\ last.phase \in {"returned", "resumed"} /\ last.written # {})
        => /\ last.written = {last.call_sid}
           /\ logs[last.call_sid].status = last.call_status
           /\ last.patch # None
           /\ last.removed = {last.call_sid}

\* C12: a status callback with a status that is not final changes neither
\* the session map, nor any session, nor any log; and an entry under a call
\* SID leaves the map only in a status callback for that SID with a final
\* status.
C12_NonTerminalChangesNothing ==
    [][/\ (/\ last'.op = "twilio_status_callback"
           /\ last'.phase # "resumed"
           /\ last'.call_status \in {"initiated", "ringing", "answered"})
              => UNCHANGED <<interview_contexts, heap, logs>>
       /\ \A call_sid \in CallSids :
            (call_sid \in DOMAIN interview_contexts
             /\ call_sid \notin DOMAIN interview_contexts')
                => /\ last'.op = "twilio_status_callback"
                   /\ last'.call_sid = call_sid
                   /\ last'.call_status \in {"completed", "failed", "busy",
                                             "no-answer"}]_vars

C12_Witness ==
    /\ IsStatusReport
    /\ last.call_status \in {"initiated", "ringing", "answered"}
    /\ last.call_sid \in Sessions
    /\ Len(Conversation(last.call_sid)) >= 2
    /\ last.call_sid \in DOMAIN logs

\* the call was finalized and its session is gone
Finalized(call_sid) ==
    /\ call_sid \notin DOMAIN interview_contexts
    /\ call_sid \in DOMAIN logs
    /\ logs[call_sid].status \in {"completed", "failed", "busy", "no-answer"}

\* C13: process_response for a call that was finalized and removed raises
\* nothing and does not put an entry for that call back into the map.
C13_LateTurnDoesNotReinsert ==
    [][\A call_sid \in CallSids :
        (/\ Finalized(call_sid)
         /\ last'.op = "process_response" /\ last'.call_sid = call_sid)
            => /\ last'.raised = "none"
               /\ call_sid \notin DOMAIN interview_contexts']_vars

\* C14: once the log of a call has status completed and an evaluation, every
\* later get_log of that call gives status completed and an evaluation,
\* whatever handler runs.
C14_CompletedLogIsAbsorbing ==
    [][\A call_sid \in CallSids :
        (/\ get_log(call_sid).raised = "none"
         /\ get_log(call_sid).body.status = "completed"
         /\ get_log(call_sid).body.evaluation # None)
            => /\ get_log(call_sid)'.raised = "none"
               /\ get_log(call_sid)'.body.status = "completed"
               /\ get_log(call_sid)'.body.evaluation # None]_vars

\* C15: after every process_response, also one whose generation failed, the
\* log of the call holds the conversation the session has at the end of the
\* turn, and exchange_count is half its length, rounded down.
C15_LogRewrittenEveryTurn ==
    IsTurnReport =>
        /\ last.call_sid \in DOMAIN logs
        /\ logs[last.call_sid].conversation = last.context.conversation
        /\ logs[last.call_sid].exchange_count =
              Len(last.context.conversation) \div 2

(***************************************************************************)
(* Properties of the prompts.                                              *)
(***************************************************************************)
\* verb v makes text heard: it plays an audio file that exists, or says text
Audible(v, text) ==
    \/ v.verb = "Play" /\ v.url # NoAudio
    \/ v.verb = "Say" /\ v.text = text

\* C16: every prompt of twilio_voice_webhook and process_response (greeting,
\* first question, next utterance, closing) is played from a synthesized
\* file or, when there is none, said with the same text; none is silent.
C16_NoSilentPrompt ==
    /\ last.op = "twilio_voice_webhook" =>
          /\ Audible(last.response[1], GreetingText)
          /\ last.response[2].verb = "Gather"
          /\ Audible(last.response[2].nested, FirstQuestion)
    /\ IsTurnReport =>
          IF HasVerb(last.response, "Hangup")
          THEN Audible(last.response[1], <<last.ai_response, ClosingSentence>>)
          ELSE /\ last.response[1].verb = "Gather"
               /\ Audible(last.response[1].nested, <<last.ai_response>>)

C16_Witness ==
    /\ IsTurnReport
    /\ HasVerb(last.response, "Hangup")
    /\ generate_openai_tts("closing", "audio") = NoAudio
    /\ last.response[1] = Say(<<last.ai_response, ClosingSentence>>)

(***************************************************************************)
(* Properties under concurrency.                                           *)
(***************************************************************************)
\* C17: when start_phone_interview moves the provisional entry to a call
\* SID that is already a key of the map, the move fails and the session
\* that was under that SID stays as it was.
C17_RekeyCollisionFails ==
    [][\A call_sid \in CallSids :
        (/\ call_sid \in DOMAIN interview_contexts
         /\ last'.op = "start_phone_interview"
         /\ call_sid \notin issued /\ call_sid \in issued')
            => /\ last'.raised # "none"
               /\ call_sid \in DOMAIN interview_contexts'
               /\ Conversation(call_sid)' = Conversation(call_sid)
               /\ heap[interview_contexts[call_sid]].jd =
                     (heap[interview_contexts[call_sid]].jd)']_vars

\* C18: whatever way two status callbacks with a final status for one call
\* interleave, an evaluation is computed only for a session that has none
\* yet, the handler that resumes deletes the session itself, and no handler
\* ends in an exception.
C18_OneFinalizePerCall ==
    [][last'.op = "twilio_status_callback" =>
        /\ last'.raised = "none"
        /\ last'.evaluated =>
              "evaluation" \notin DOMAIN heap[interview_contexts[last'.call_sid]]
        /\ last'.phase = "resumed" => last'.removed = {last'.call_sid}]_vars

\* what one process_response appends
TurnsOf(report) ==
    IF report.gen = GenFailure
    THEN <<Turn("user", report.speech_result)>>
    ELSE <<Turn("user", report.speech_result), Turn("assistant", report.gen)>>

\* C19: every process_response appends its own turns, next to each other,
\* to the whole conversation the handlers before it left, so two deliveries
\* for one call give the conversation of one of the two serial orders.
C19_TurnsSerialized ==
    [][\A call_sid \in CallSids :
        (last'.op = "process_response" /\ last'.call_sid = call_sid) =>
            LET before == IF call_sid \in DOMAIN interview_contexts
                          THEN Conversation(call_sid) ELSE <<>>
            IN  /\ last'.context.conversation = before \o TurnsOf(last')
                /\ last'.gen # GenFailure =>
                      /\ call_sid \in DOMAIN interview_contexts'
                      /\ Conversation(call_sid)' = before \o TurnsOf(last')]_vars

C19_Witness ==
    /\ IsTurnReport
    /\ last.calls = 2
    /\ Len(last.context.conversation) = 4
    /\ last.context.conversation[1].content # last.context.conversation[3].content
    /\ Alternates(last.context.conversation)

\* C20: a status callback with a final status writes the final log before
\* it sends the PATCH, and deletes the session after both.
C20_LogBeforeNotify ==
    /\ (IsStatusReport /\ last.phase = "suspended") =>
          /\ last.call_sid \in DOMAIN logs
          /\ logs[last.call_sid].status = last.call_status
          /\ last.call_sid \in DOMAIN interview_contexts
    /\ (IsStatusReport /\ last.removed # {}) => last.written = last.removed

(***************************************************************************)
(* Properties of the failure paths.                                        *)
(***************************************************************************)
\* C21: when the PATCH raises or is answered with another status than 200,
\* the status callback still writes the final log, still deletes the
\* session and returns without an exception.
C21_NotifyFailureDoesNotBlock ==
    (/\ IsStatusReport /\ last.phase = "resumed"
     /\ last.patch.answer \in {"500", "exception"})
        => /\ last.raised = "none"
           /\ last.written = {last.call_sid}
           /\ logs[last.call_sid].status = last.call_status
           /\ last.removed = {last.call_sid}
           /\ last.call_sid \notin DOMAIN interview_contexts

\* C22: when start_phone_interview fails because the provider does not
\* create the call, it reports the failure, the session map is as it was
\* before the request and holds no provisional entry.
C22_FailedStartLeavesNoEntry ==
    [][(last'.op = "start_phone_interview" /\ last'.raised # "none") =>
        /\ interview_contexts' = interview_contexts
        /\ TempKey(last'.request.phone_number) \notin DOMAIN interview_contexts']_vars

\* C23: when one of the Twilio settings is missing, start_phone_interview
\* fails at once with the configuration error: no call is asked of the
\* provider, nothing is stored, the session map is unchanged.
C23_MissingSettingChangesNothing ==
    [][(/\ last'.op = "start_phone_interview"
        /\ \E name \in Settings : ~twilio_configured[name])
          => /\ last'.raised = "HTTP500"
             /\ last'.detail = "Twilio credentials not configured"
             /\ UNCHANGED <<interview_contexts, heap, logs, issued>>]_vars

C23_Witness ==
    /\ last.op = "start_phone_interview"
    /\ last.raised = "HTTP500"
    /\ twilio_configured["TWILIO_ACCOUNT_SID"]
    /\ twilio_configured["TWILIO_AUTH_TOKEN"]
    /\ ~twilio_configured["TWILIO_PHONE_NUMBER"]
    /\ "CA1" \in Sessions
    /\ TempKey(last.request.phone_number) \notin DOMAIN interview_contexts

(***************************************************************************)
(* Properties of the answering webhook and of the call creation.           *)
(***************************************************************************)
\* C24: twilio_voice_webhook, however often it runs for a call, changes
\* neither the session map nor any session nor any log, so the greeting and
\* the first question take nothing from the turns left before the hang-up.
C24_GreetingNotCounted ==
    [][last'.op = "twilio_voice_webhook" =>
        UNCHANGED <<interview_contexts, heap, logs, hist, turns>>]_vars

C24_Witness ==
    /\ last.op = "twilio_voice_webhook"
    /\ "CA1" \in Sessions
    /\ Len(Conversation("CA1")) >= 2
    /\ Len(Conversation("CA1")) = 2 * CallsHandled("CA1")

\* C25: of the requests to call one phone number, in whatever order they
\* are handled, each one whose call is created ends with an entry under its
\* own call SID that holds its own job description and resume, leaves no
\* provisional entry, and leaves the sessions of the other calls as they were.
C25_SamePhoneNoCorruption ==
    [][(last'.op = "start_phone_interview" /\ last'.raised = "none") =>
        /\ last'.call_sid \in DOMAIN interview_contexts'
        /\ heap'[interview_contexts'[last'.call_sid]] =
              [jd |-> last'.request.jd, resume |-> last'.request.resume]
        /\ TempKey(last'.request.phone_number) \notin DOMAIN interview_contexts'
        /\ \A other \in Sessions \ {last'.call_sid} :
              /\ other \in DOMAIN interview_contexts'
              /\ heap'[interview_contexts'[other]] = heap[interview_contexts[other]]]_vars

C25_Witness ==
    /\ last.op = "start_phone_interview" /\ last.raised = "none"
    /\ Sessions = {"CA1", "CA2"}
    /\ hist[interview_contexts["CA1"]].started
    /\ hist[interview_contexts["CA2"]].started
    /\ heap[interview_contexts["CA1"]].jd # heap[interview_contexts["CA2"]].jd
    /\ DOMAIN interview_contexts = Sessions

\* C26: the status sent in the PATCH is accepted exactly when the decision
\* of the evaluation sent with it is ACCEPT; for every other decision, the
\* PENDING of the fallback included, it is rejected.
C26_PushedStatusFollowsDecision ==
    (IsStatusReport /\ last.phase = "suspended") =>
        /\ last.patch.evaluation = last.evaluation
        /\ last.patch.status \in {"accepted", "rejected"}
        /\ last.patch.status = "accepted"
              <=> Get(last.evaluation.fields, "decision", "None") = "ACCEPT"

C26_Witness ==
    /\ IsStatusReport /\ last.phase = "suspended"
    /\ last.evaluation = EvalFallback
    /\ last.patch.status = "rejected"

\* C27: of the process_response calls of one call at most 9 answer without
\* a hang-up before one hangs up, also when every generation fails and when
\* the call has no session: the tenth call at the latest hangs up.
C27_HangsUpByTenthCall ==
    (IsTurnReport /\ last.call_sid = "CA1" /\ turns >= 10) =>
        HasVerb(last.response, "Hangup")

====
